---- MODULE Spec2Model ----
(***************************************************************************)
(* Job ledger, reconcile, worker loop and moderation decisions of the      *)
(* galeria AI video quality tool.                                          *)
(*                                                                         *)
(* Part I models the single-table tool: src/app.py (sync_gcs_to_bigquery,  *)
(* get_videos_to_review, update_decision_in_bq) and                        *)
(* src/video-moderator-app/worker.py (the polling worker) over one bucket  *)
(* and the BigQuery table `overview`.                                      *)
(*                                                                         *)
(* Names.  An image_id is the basename of an input image, <<stem, ext>>.   *)
(* A video_id is a blob name <<folder, stem, ext>>, or NULL (<<>>).        *)
(* Timestamps (last_updated) are only ever compared, so the table keeps    *)
(* their dense ranks 1..k instead of wall-clock values.                    *)
(* The columns notes, moderator_id, log_timestamp and last_updated_email   *)
(* are written by exactly the statement that writes decision and are read  *)
(* by no code path; the table keeps decision and prompt for them.          *)
(*                                                                         *)
(* Part II models the moderation helpers of the three-bucket pipeline,     *)
(* src/video-moderator-app/src/utils/storage_utilities.py: objects move    *)
(* between the input, processed and approved buckets by copy-then-delete   *)
(* and every decision appends a row to the event log.  A gs:// URI is kept *)
(* as the list of its "/"-separated parts, <<"gs:", "", bucket, folder,    *)
(* file>>, which is what the code splits it into.                          *)
(*                                                                         *)
(* Part III models the asset grouper, get_new_input_assets of              *)
(* src/video-moderator-app/src/utils/task_queue_tools.py: one forward pass *)
(* over a sorted listing of object keys.  A key is kept as its folder, the *)
(* "_"-separated parts of its filename and its extension; a product id is  *)
(* the tuple of strings that filename.split("_")[0] is made of.            *)
(*                                                                         *)
(* Part IV models the upload pipeline of src/image-processing-pipeline:    *)
(* the task generator (a function run for every upload notification) and   *)
(* the video generator (a function run for every queued task), with        *)
(* publish_task of task_queue_tools.py as a second source of               *)
(* notifications.  Notifications and tasks are delivered at least once.    *)
(***************************************************************************)
EXTENDS Integers, Sequences, FiniteSets, TLC

\* ------------------------------------------------------------------ bounds
MaxRows == 3            \* rows the table may hold (one duplicate beyond Ids)
MaxTasks == 2           \* tasks the Cloud Tasks queue may hold
MaxLogs == 4            \* rows the video log may hold
MaxGenerations == 2     \* invocations of the generation model

\* ------------------------------------------------------------ name spaces
IdOrder == << <<"a", "png">>, <<"b", "jpg">> >>   \* in listing (name) order
Ids == { IdOrder[i] : i \in 1..Len(IdOrder) }
Reconcilers == {1, 2}
Moderators == {1, 2}
Workers == {1, 2}
NULL == <<>>             \* NULL of a name column (image_id, video_id)
NoText == "NULL"         \* NULL of a text column (decision, prompt)
DefaultPrompt == "default"
EditedPrompt == "edited"
Decisions == {"approve", "regenerate", "remove"}

Stem(image_id) == image_id[1]
Stems == { Stem(i) : i \in Ids }
PendingVideo(stem) == <<"pending", stem, "mp4">>
OutputVideo(stem) == <<"output", stem, "mp4">>
ApprovedVideo(stem) == <<"approved", stem, "webp">>
VideoStem(path) == path[2]

VARIABLES
    inputImages,   \* image_ids under GCS_INPUT_PREFIX
    blobs,         \* video blobs of the bucket
    table,         \* sequence of rows of BIGQUERY_TABLE
    sync,          \* per reconcile run: program counter and locals
    worker,        \* per worker instance: program counter and current job
    mods,          \* per moderator session: queue head and decision in progress
    streak,        \* history: reconcile runs completed back to back
    objects,       \* Part II: the objects of the three asset buckets
    events,        \* Part II: rows of the moderation event log
    job,           \* Part II: the review-queue entry being decided
    decide,        \* Part II: the decision call in progress
    scan,          \* Part III: one pass of the asset grouper over a listing
    notices,       \* Part IV: notifications published and not yet acknowledged
    tasks,         \* Part IV: the tasks of the Cloud Tasks queue
    videoLogs,     \* Part IV: rows of BIGQUERY_VIDEO_LOGS_TABLE_ID
    generated,     \* Part IV: history, invocations of generate_videos
    reply,         \* Part IV: what the task generator returned last, and for which object
    approvedBucket,\* Part V: the objects of APPROVED_GCS_BUCKET
    convEvents,    \* Part V: upload notifications of that bucket, not yet acknowledged
    conv           \* Part V: the converter call in progress

vars == <<inputImages, blobs, table, sync, worker, mods, streak,
          objects, events, job, decide, scan,
          notices, tasks, videoLogs, generated, reply,
          approvedBucket, convEvents, conv>>

ledgerVars == <<inputImages, blobs, table, sync, worker, mods, streak>>
assetVars == <<objects, events, job, decide>>
queueVars == <<scan>>
pipeVars == <<notices, tasks, videoLogs, generated, reply>>
convVars == <<approvedBucket, convEvents, conv>>

\* ------------------------------------------------------------- the table
RowIdx == 1..Len(table)
RowsOf(t, image_id) == { i \in 1..Len(t) : t[i].image_id = image_id }
Buffered(t, image_id) == \E i \in RowsOf(t, image_id) : t[i].buffered

MaxStamp(t) ==
    IF Len(t) = 0 THEN 0
    ELSE CHOOSE m \in { t[i].last_updated : i \in 1..Len(t) } :
            \A i \in 1..Len(t) : t[i].last_updated <= m

\* dense ranks: the order of the timestamps is all the code reads
Normalize(t) ==
    LET stamps == { t[i].last_updated : i \in 1..Len(t) }
        rank(x) == Cardinality({ y \in stamps : y < x }) + 1
    IN  [ i \in 1..Len(t) |-> [ t[i] EXCEPT !.last_updated = rank(@) ] ]

\* UPDATE ... SET <fields>, last_updated = now WHERE image_id = @image_id.
\* The statement is rejected while a row it would affect is in the
\* streaming buffer; otherwise it rewrites every row with that image_id.
UpdateRejected(t, image_id) == Buffered(t, image_id)

ApplyUpdate(t, image_id, fields) ==
    LET now == MaxStamp(t) + 1
    IN  Normalize([ i \in 1..Len(t) |->
            IF t[i].image_id = image_id
            THEN [ f \in DOMAIN t[i] |->
                     IF f \in DOMAIN fields THEN fields[f]
                     ELSE IF f = "last_updated" THEN now
                     ELSE t[i][f] ]
            ELSE t[i] ])

RunUpdate(t, image_id, fields) ==
    IF UpdateRejected(t, image_id) THEN t ELSE ApplyUpdate(t, image_id, fields)

\* ------------------------------------------------------------ reconcile
IdleSync ==
    [ pc |-> "idle", inMap |-> {}, outMap |-> {}, bqMap |-> {},
      updates |-> <<>>, ret |-> <<0, 0>>, clean |-> FALSE ]

\* get_gcs_output_videos: stem -> blob name, for the blobs under
\* VIDEO_OUTPUT_PREFIXES (the pending folder) that end in .mp4 or .webp
OutputListing(bs) ==
    { b \in bs : b[1] = "pending" /\ b[3] \in {"mp4", "webp"} }

\* get_bq_all_rows: {row.image_id: dict(row)}, a later row replaces an
\* earlier one with the same image_id
AllRows(t) ==
    { [ image_id |-> t[i].image_id,
        generation_status |-> t[i].generation_status,
        video_id |-> t[i].video_id ] :
      i \in { j \in 1..Len(t) :
                ~ \E k \in (j+1)..Len(t) : t[k].image_id = t[j].image_id } }

SnapshotIds(bqMap) == { r.image_id : r \in bqMap }

\* a row builder that skips the look-up of an existing video
NewRowBroken(image_id, outMap, stamp) ==
    [ image_id |-> image_id,
      generation_status |-> "PENDING",
      video_id |-> NULL,
      generation_attempts |-> 0,
      prompt |-> DefaultPrompt,
      decision |-> NoText,
      buffered |-> TRUE,
      last_updated |-> stamp ]

\* the row sync_gcs_to_bigquery builds for a new image
NewRow(image_id, outMap, stamp) ==
    LET found == { v \in outMap : VideoStem(v) = Stem(image_id) }
    IN  [ image_id |-> image_id,
          generation_status |-> IF found = {} THEN "PENDING" ELSE "APPROVAL_PENDING",
          video_id |-> IF found = {} THEN NULL ELSE CHOOSE v \in found : TRUE,
          generation_attempts |-> 0,
          prompt |-> DefaultPrompt,
          decision |-> NoText,
          buffered |-> TRUE,
          last_updated |-> stamp ]

\* an image_id -> the video the back-fill pass would write, in listing order
BackfillPlan(s) ==
    LET wanted(image_id) ==
            /\ \E v \in s.outMap : VideoStem(v) = Stem(image_id)
            /\ \E row \in s.bqMap :
                  /\ row.image_id = image_id
                  /\ row.generation_status = "PENDING"
                  /\ row.video_id = NULL
    IN  SelectSeq(IdOrder, wanted)

\* the history of undisturbed runs: any step of another actor resets it
Disturb ==
    /\ streak' = [ runs |-> 0, last |-> 0 ]
    /\ sync' = [ r \in Reconcilers |-> [ sync[r] EXCEPT !.clean = FALSE ] ]

Finished(r, s) ==
    /\ sync' = [ sync EXCEPT ![r] = [ IdleSync EXCEPT !.ret = s.ret ] ]
    /\ streak' = IF s.clean
                 THEN [ runs |-> IF streak.runs < 2 THEN streak.runs + 1 ELSE 2,
                        last |-> r ]
                 ELSE [ runs |-> 0, last |-> 0 ]

\* step 1 of sync_gcs_to_bigquery: the two bucket listings
SyncGather(r) ==
    /\ sync[r].pc = "idle"
    /\ LET alone == \A q \in Reconcilers \ {r} : sync[q].pc = "idle"
       IN  /\ sync' = [ q \in Reconcilers |->
                          IF q = r
                          THEN [ IdleSync EXCEPT !.pc = "listed",
                                                 !.inMap = inputImages,
                                                 !.outMap = OutputListing(blobs),
                                                 !.clean = alone ]
                          ELSE [ sync[q] EXCEPT !.clean = FALSE ] ]
           /\ streak' = IF alone THEN streak ELSE [ runs |-> 0, last |-> 0 ]
    /\ UNCHANGED <<convVars, assetVars, queueVars, pipeVars, inputImages, blobs, table, worker, mods>>

\* step 1, continued: the snapshot of the table
SyncReadBq(r) ==
    /\ sync[r].pc = "listed"
    /\ sync' = [ sync EXCEPT ![r].pc = "read", ![r].bqMap = AllRows(table) ]
    /\ UNCHANGED <<convVars, assetVars, queueVars, pipeVars, inputImages, blobs, table, worker, mods, streak>>

\* the rows of one insert_rows_json call, appended in some order of the set
\* new_image_ids, each stamped in that order
RECURSIVE Appended(_, _, _)
Appended(t, order, outMap) ==
    IF order = <<>> THEN t
    ELSE Appended(Append(t, NewRow(Head(order), outMap, MaxStamp(t) + 1)),
                  Tail(order), outMap)

Orders(S) ==
    { o \in [ 1..Cardinality(S) -> S ] : \A i, j \in DOMAIN o : i # j => o[i] # o[j] }

\* step 2 (forward-fill) and the planning of step 3 (back-fill)
SyncInsert(r) ==
    /\ sync[r].pc = "read"
    /\ LET s == sync[r]
           new_image_ids == s.inMap \ SnapshotIds(s.bqMap)
           plan == BackfillPlan(s)
           after == [ s EXCEPT !.updates = plan,
                               !.ret = << Cardinality(new_image_ids), Len(plan) >> ]
       IN  /\ Len(table) + Cardinality(new_image_ids) <= MaxRows
           /\ \E order \in Orders(new_image_ids) :
                  table' = Normalize(Appended(table, order, s.outMap))
           /\ IF plan = <<>>
              THEN Finished(r, after)
              ELSE /\ sync' = [ sync EXCEPT ![r] = [ after EXCEPT !.pc = "backfill" ] ]
                   /\ UNCHANGED streak
    /\ UNCHANGED <<convVars, assetVars, queueVars, pipeVars, inputImages, blobs, worker, mods>>

\* a back-fill loop that a rejected UPDATE ends
SyncBackfillStops(r) ==
    /\ sync[r].pc = "backfill"
    /\ LET s == sync[r]
           image_id == Head(s.updates)
           video_path == CHOOSE v \in s.outMap : VideoStem(v) = Stem(image_id)
           after == [ s EXCEPT !.updates = Tail(s.updates) ]
       IN  /\ table' = RunUpdate(table, image_id,
                          [ generation_status |-> "APPROVAL_PENDING",
                            video_id |-> video_path ])
           /\ IF after.updates = <<>> \/ UpdateRejected(table, image_id)
              THEN Finished(r, after)
              ELSE /\ sync' = [ sync EXCEPT ![r] = after ]
                   /\ UNCHANGED streak
    /\ UNCHANGED <<convVars, assetVars, queueVars, pipeVars, inputImages, blobs, worker, mods>>

\* step 3: one UPDATE of the back-fill loop; a rejected one is passed over
SyncBackfill(r) ==
    /\ sync[r].pc = "backfill"
    /\ LET s == sync[r]
           image_id == Head(s.updates)
           video_path == CHOOSE v \in s.outMap : VideoStem(v) = Stem(image_id)
           after == [ s EXCEPT !.updates = Tail(s.updates) ]
       IN  /\ table' = RunUpdate(table, image_id,
                          [ generation_status |-> "APPROVAL_PENDING",
                            video_id |-> video_path ])
           /\ IF after.updates = <<>>
              THEN Finished(r, after)
              ELSE /\ sync' = [ sync EXCEPT ![r] = after ]
                   /\ UNCHANGED streak
    /\ UNCHANGED <<convVars, assetVars, queueVars, pipeVars, inputImages, blobs, worker, mods>>

Reconcile(r) ==
    SyncGather(r) \/ SyncReadBq(r) \/ SyncInsert(r) \/ SyncBackfill(r)

\* ------------------------------------------------------------ the ledger
\* a streamed row leaves the streaming buffer
BufferFlush ==
    /\ \E i \in RowIdx :
          /\ table[i].buffered
          /\ table' = [ table EXCEPT ![i].buffered = FALSE ]
    /\ Disturb
    /\ UNCHANGED <<convVars, assetVars, queueVars, pipeVars, inputImages, blobs, worker, mods>>

\* ----------------------------------------------------------- the bucket
\* a video generated for one of the input images is delivered into the
\* pending folder
VideoArrives ==
    /\ \E image_id \in inputImages :
          /\ PendingVideo(Stem(image_id)) \notin blobs
          /\ blobs' = blobs \cup { PendingVideo(Stem(image_id)) }
    /\ Disturb
    /\ UNCHANGED <<convVars, assetVars, queueVars, pipeVars, inputImages, table, worker, mods>>

\* ----------------------------------------------------------- the worker
IdleWorker == [ pc |-> "poll", image_id |-> NULL, prompt |-> NoText ]

\* a look-up that orders the PENDING rows by last_updated DESC
NextPendingJobsNewest(t) ==
    { i \in 1..Len(t) :
        /\ t[i].generation_status = "PENDING"
        /\ \A j \in 1..Len(t) :
              t[j].generation_status = "PENDING" => t[i].last_updated >= t[j].last_updated }

\* get_next_pending_job: WHERE generation_status = 'PENDING'
\* ORDER BY last_updated ASC LIMIT 1
NextPendingJobs(t) ==
    { i \in 1..Len(t) :
        /\ t[i].generation_status = "PENDING"
        /\ \A j \in 1..Len(t) :
              t[j].generation_status = "PENDING" => t[i].last_updated <= t[j].last_updated }

\* a status update that leaves video_id as it is
UpdateJobStatusOnly(t, image_id, status, video_path) ==
    RunUpdate(t, image_id, [ generation_status |-> status ])

\* update_job_status: the statement always writes video_id, NULL by default,
\* and a failure of the query is printed and swallowed
UpdateJobStatus(t, image_id, status, video_path) ==
    RunUpdate(t, image_id, [ generation_status |-> status, video_id |-> video_path ])

\* a poll that takes any PENDING row, whatever its last_updated
WorkerPollAny(w) ==
    /\ worker[w].pc = "poll"
    /\ IF \A i \in RowIdx : table[i].generation_status # "PENDING"
       THEN UNCHANGED worker
       ELSE \E i \in RowIdx :
              /\ table[i].generation_status = "PENDING"
              /\ worker' = [ worker EXCEPT ![w] =
                               [ pc |-> "claim", image_id |-> table[i].image_id,
                                 prompt |-> table[i].prompt ] ]
    /\ Disturb
    /\ UNCHANGED <<convVars, assetVars, queueVars, pipeVars, inputImages, blobs, table, mods>>

WorkerPoll(w) ==
    /\ worker[w].pc = "poll"
    /\ IF NextPendingJobs(table) = {}
       THEN UNCHANGED worker                  \* sleep POLL_INTERVAL
       ELSE \E i \in NextPendingJobs(table) :
              worker' = [ worker EXCEPT ![w] =
                            [ pc |-> "claim", image_id |-> table[i].image_id,
                              prompt |-> table[i].prompt ] ]
    /\ Disturb
    /\ UNCHANGED <<convVars, assetVars, queueVars, pipeVars, inputImages, blobs, table, mods>>

\* 1. Mark as GENERATING
WorkerClaim(w) ==
    /\ worker[w].pc = "claim"
    /\ table' = UpdateJobStatus(table, worker[w].image_id, "GENERATING", NULL)
    /\ worker' = [ worker EXCEPT ![w].pc = "generate" ]
    /\ Disturb
    /\ UNCHANGED <<convVars, assetVars, queueVars, pipeVars, inputImages, blobs, mods>>

\* 2. generate_video: the placeholder sleeps and returns the content; with
\* the text prompts the table holds nothing in the try block raises, so the
\* except branch of main is never entered
WorkerGenerate(w) ==
    /\ worker[w].pc = "generate"
    /\ worker' = [ worker EXCEPT ![w].pc = "upload" ]
    /\ Disturb
    /\ UNCHANGED <<convVars, assetVars, queueVars, pipeVars, inputImages, blobs, table, mods>>

\* 3. upload_to_gcs returns True
WorkerUpload(w) ==
    /\ worker[w].pc = "upload"
    /\ blobs' = blobs \cup { OutputVideo(Stem(worker[w].image_id)) }
    /\ worker' = [ worker EXCEPT ![w].pc = "mark" ]
    /\ Disturb
    /\ UNCHANGED <<convVars, assetVars, queueVars, pipeVars, inputImages, table, mods>>

\* a failed upload after which the loop polls again at once
WorkerUploadFailsNoCooldown(w) ==
    /\ worker[w].pc = "upload"
    /\ table' = UpdateJobStatus(table, worker[w].image_id, "FAILED", NULL)
    /\ worker' = [ worker EXCEPT ![w] = IdleWorker ]
    /\ Disturb
    /\ UNCHANGED <<convVars, assetVars, queueVars, pipeVars, inputImages, blobs, mods>>

\* 3. upload_to_gcs returns False: the job is marked FAILED
WorkerUploadFails(w) ==
    /\ worker[w].pc = "upload"
    /\ table' = UpdateJobStatus(table, worker[w].image_id, "FAILED", NULL)
    /\ worker' = [ worker EXCEPT ![w].pc = "cooldown" ]
    /\ Disturb
    /\ UNCHANGED <<convVars, assetVars, queueVars, pipeVars, inputImages, blobs, mods>>

\* 4. Mark as APPROVAL_PENDING
WorkerMark(w) ==
    /\ worker[w].pc = "mark"
    /\ table' = UpdateJobStatus(table, worker[w].image_id, "APPROVAL_PENDING",
                                OutputVideo(Stem(worker[w].image_id)))
    /\ worker' = [ worker EXCEPT ![w].pc = "cooldown" ]
    /\ Disturb
    /\ UNCHANGED <<convVars, assetVars, queueVars, pipeVars, inputImages, blobs, mods>>

\* 5. Cooldown, then the next poll
WorkerCooldown(w) ==
    /\ worker[w].pc = "cooldown"
    /\ worker' = [ worker EXCEPT ![w] = IdleWorker ]
    /\ Disturb
    /\ UNCHANGED <<convVars, assetVars, queueVars, pipeVars, inputImages, blobs, table, mods>>

Worker(w) ==
    \/ WorkerPoll(w) \/ WorkerClaim(w) \/ WorkerGenerate(w)
    \/ WorkerUpload(w) \/ WorkerUploadFails(w) \/ WorkerMark(w) \/ WorkerCooldown(w)

\* -------------------------------------------------------- the moderator
NoEntry == [ image_id |-> NULL, video_id |-> NULL ]

IdleMod ==
    [ pc |-> "idle", entry |-> NoEntry, decision |-> NoText,
      new_video_path |-> NULL, result |-> "none" ]

\* get_videos_to_review: WHERE generation_status = 'APPROVAL_PENDING'
\* AND decision IS NULL ORDER BY last_updated ASC; the page shows entry [0]
VideosToReview(t) ==
    { i \in 1..Len(t) :
        /\ t[i].generation_status = "APPROVAL_PENDING"
        /\ t[i].decision = NoText
        /\ \A j \in 1..Len(t) :
              (t[j].generation_status = "APPROVAL_PENDING" /\ t[j].decision = NoText)
                  => t[i].last_updated <= t[j].last_updated }

\* a session without a video_queue (or with an empty one) runs the query;
\* the queue then stays in the session state and is never popped
ModLoadQueue(m) ==
    /\ mods[m].pc = "idle"
    /\ IF VideosToReview(table) = {}
       THEN mods' = [ mods EXCEPT ![m] = IdleMod ]
       ELSE \E i \in VideosToReview(table) :
              mods' = [ mods EXCEPT ![m] =
                          [ IdleMod EXCEPT !.entry =
                              [ image_id |-> table[i].image_id,
                                video_id |-> table[i].video_id ] ] ]
    /\ Disturb
    /\ UNCHANGED <<convVars, assetVars, queueVars, pipeVars, inputImages, blobs, table, worker>>

CanDecide(m) ==
    /\ mods[m].pc = "idle"
    /\ mods[m].entry # NoEntry
    /\ mods[m].entry.video_id # NULL       \* else "Data error: Missing video_id"

\* a storage error that is passed over: the decision goes on to its UPDATE
ModStorageErrorIgnored(m) ==
    mods' = [ mods EXCEPT ![m].pc = "update", ![m].decision = "remove",
                          ![m].new_video_path = NULL, ![m].result = "none" ]

\* a storage call of update_decision_in_bq raises: st.error, st.stop
ModStorageError(m) ==
    mods' = [ mods EXCEPT ![m] = [ IdleMod EXCEPT !.entry = mods[m].entry,
                                                  !.result = "gcs_error" ] ]

\* Approve: download the MP4, convert, upload the WebP to the approved folder
ModApproveUpload(m) ==
    /\ CanDecide(m)
    /\ LET src == mods[m].entry.video_id
           dst == ApprovedVideo(VideoStem(src))
       IN  IF src \notin blobs
           THEN ModStorageError(m) /\ UNCHANGED blobs
           ELSE /\ blobs' = blobs \cup { dst }
                /\ mods' = [ mods EXCEPT ![m].pc = "delete",
                                         ![m].decision = "approve",
                                         ![m].new_video_path = dst,
                                         ![m].result = "none" ]
    /\ Disturb
    /\ UNCHANGED <<convVars, assetVars, queueVars, pipeVars, inputImages, table, worker>>

\* Approve, continued: delete the original MP4
ModApproveDelete(m) ==
    /\ mods[m].pc = "delete"
    /\ LET src == mods[m].entry.video_id
       IN  IF src \notin blobs
           THEN ModStorageError(m) /\ UNCHANGED blobs
           ELSE /\ blobs' = blobs \ { src }
                /\ mods' = [ mods EXCEPT ![m].pc = "update" ]
    /\ Disturb
    /\ UNCHANGED <<convVars, assetVars, queueVars, pipeVars, inputImages, table, worker>>

\* a delete that does not raise when the video is already gone
ModDeleteQuiet(m) ==
    /\ CanDecide(m)
    /\ \E decision \in {"regenerate", "remove"} :
          /\ blobs' = blobs \ { mods[m].entry.video_id }
          /\ mods' = [ mods EXCEPT ![m].pc = "update",
                                   ![m].decision = decision,
                                   ![m].new_video_path = NULL,
                                   ![m].result = "none" ]
    /\ Disturb
    /\ UNCHANGED <<convVars, assetVars, queueVars, pipeVars, inputImages, table, worker>>

\* Regenerate or Remove: delete the video
ModDelete(m) ==
    /\ CanDecide(m)
    /\ \E decision \in {"regenerate", "remove"} :
          LET src == mods[m].entry.video_id
          IN  IF src \notin blobs
              THEN ModStorageError(m) /\ UNCHANGED blobs
              ELSE /\ blobs' = blobs \ { src }
                   /\ mods' = [ mods EXCEPT ![m].pc = "update",
                                            ![m].decision = decision,
                                            ![m].new_video_path = NULL,
                                            ![m].result = "none" ]
    /\ Disturb
    /\ UNCHANGED <<convVars, assetVars, queueVars, pipeVars, inputImages, table, worker>>

\* the fields the decision UPDATE sets (last_updated is set with every update)
DecisionFields(decision, new_prompt, new_video_path) ==
    [ decision |-> decision,
      generation_status |-> IF decision = "regenerate" THEN "PENDING" ELSE "MODERATED",
      prompt |-> new_prompt,
      video_id |-> new_video_path ]

\* the UPDATE of update_decision_in_bq, keyed by image_id alone
ModUpdate(m) ==
    /\ mods[m].pc = "update"
    /\ \E new_prompt \in {DefaultPrompt, EditedPrompt} :
          table' = RunUpdate(table, mods[m].entry.image_id,
                      DecisionFields(mods[m].decision, new_prompt,
                                     mods[m].new_video_path))
    /\ mods' = [ mods EXCEPT ![m] =
                    [ IdleMod EXCEPT
                        !.entry = mods[m].entry,
                        !.decision = mods[m].decision,
                        !.result = IF UpdateRejected(table, mods[m].entry.image_id)
                                   THEN "bq_error" ELSE "logged" ] ]
    /\ Disturb
    /\ UNCHANGED <<convVars, assetVars, queueVars, pipeVars, inputImages, blobs, worker>>

Moderator(m) ==
    \/ ModLoadQueue(m) \/ ModApproveUpload(m) \/ ModApproveDelete(m)
    \/ ModDelete(m) \/ ModUpdate(m)


\* =============================================== Part II: the asset buckets
INPUT_ASSETS_BUCKET_NAME == "galeria-veo3-input-assets-galeria-retail-api-dev"
PROCESSED_ASSETS_BUCKET_NAME == "galeria-veo3-processed-assets-galeria-retail-api-dev"
APPROVED_ASSETS_BUCKET_NAME == "galeria-veo3-approved-assets-galeria-retail-api-dev"

Gtin == "4062742342943"
Category == "male_clothes"
ImageFiles == << "4062742342943_01.jpg", "4062742342943_02.jpg" >>
VideoFile == "4062742342943_01.mp4"

\* "gs://<bucket>/<folder>/<file>".split("/")
Uri(bucket, folder, file) == << "gs:", "", bucket, folder, file >>
LastPart(gcs_uri) == gcs_uri[Len(gcs_uri)]            \* gcs_uri.split("/")[-1]

\* Blob.from_uri: the object <<bucket, folder, file>> the URI names
BlobFromUri(gcs_uri) == << gcs_uri[3], gcs_uri[4], gcs_uri[5] >>

\* "input-assets" in part, for the parts a URI of this model can have
MentionsInputAssets(part) == part = INPUT_ASSETS_BUCKET_NAME

\* fix_reference_image_uris: the test reads gcs_uri.split("/")[0]
FixReferenceImageUris(gtin, reference_image_gcs_uris) ==
    [ index \in DOMAIN reference_image_gcs_uris |->
        LET gcs_uri == reference_image_gcs_uris[index]
        IN  IF MentionsInputAssets(gcs_uri[1])
            THEN Uri(PROCESSED_ASSETS_BUCKET_NAME, gtin, LastPart(gcs_uri))
            ELSE gcs_uri ]

NoJob == [ gtin |-> "", category |-> "", video_gcs_uri |-> <<>>,
           reference_image_gcs_uris |-> <<>> ]

IdleDecide ==
    [ pc |-> "idle", op |-> "none", uris |-> <<>>, i |-> 0, ready |-> FALSE,
      retried |-> FALSE ]

\* history: the job's images and video all lie in the processed bucket
JobInProcessed ==
    /\ \A k \in DOMAIN ImageFiles :
          << PROCESSED_ASSETS_BUCKET_NAME, job.gtin, ImageFiles[k] >> \in objects
    /\ BlobFromUri(job.video_gcs_uri) \in objects

\* approve_video up to the first move: the URIs are fixed, the video is
\* appended, and initiate_blob_copy walks the list
ApproveVideo ==
    /\ decide.pc = "idle"
    /\ decide' = [ pc |-> "copy", op |-> "approve",
                   uris |-> FixReferenceImageUris(job.gtin, job.reference_image_gcs_uris)
                               \o << job.video_gcs_uri >>,
                   i |-> 1, ready |-> JobInProcessed, retried |-> FALSE ]
    /\ UNCHANGED <<convVars, ledgerVars, queueVars, pipeVars, objects, events, job>>

\* reject_video up to the first move
RejectVideo ==
    /\ decide.pc = "idle"
    /\ decide' = [ pc |-> "copy", op |-> "reject",
                   uris |-> FixReferenceImageUris(job.gtin, job.reference_image_gcs_uris),
                   i |-> 1, ready |-> JobInProcessed, retried |-> FALSE ]
    /\ UNCHANGED <<convVars, ledgerVars, queueVars, pipeVars, objects, events, job>>

\* regenerate_video: the body is `pass`
RegenerateVideo ==
    /\ decide.pc = "idle"
    /\ decide' = [ IdleDecide EXCEPT !.pc = "done", !.op = "regenerate",
                                     !.ready = JobInProcessed ]
    /\ UNCHANGED <<convVars, ledgerVars, queueVars, pipeVars, objects, events, job>>

\* where the current URI is moved to: <gtin>/<file> of the approved bucket
\* (initiate_blob_copy), <category>/<file> of the input bucket (reject_video)
Destination ==
    IF decide.op = "approve"
    THEN << APPROVED_ASSETS_BUCKET_NAME, job.gtin, LastPart(decide.uris[decide.i]) >>
    ELSE << INPUT_ASSETS_BUCKET_NAME, job.category, LastPart(decide.uris[decide.i]) >>

\* copy_blob_between_buckets, first half: copy_blob reads the object the
\* blob names, whichever bucket object the call is made on; a missing
\* source or a request the storage service refuses raises, and the decision
\* call ends there
CopyBlob ==
    /\ decide.pc = "copy"
    /\ LET source_blob == BlobFromUri(decide.uris[decide.i])
       IN  \E refused \in BOOLEAN :
           IF source_blob \in objects /\ ~ refused
           THEN /\ objects' = objects \cup { Destination }
                /\ decide' = [ decide EXCEPT !.pc = "delete" ]
           ELSE /\ decide' = [ decide EXCEPT !.pc = "error" ]
                /\ UNCHANGED objects
    /\ UNCHANGED <<convVars, ledgerVars, queueVars, pipeVars, events, job>>

\* copy_blob_between_buckets, second half: source_blob.delete()
DeleteSource ==
    /\ decide.pc = "delete"
    /\ LET source_blob == BlobFromUri(decide.uris[decide.i])
       IN  \E refused \in BOOLEAN :
           IF source_blob \in objects /\ ~ refused
           THEN /\ objects' = objects \ { source_blob }
                /\ decide' = [ decide EXCEPT
                                 !.i = @ + 1,
                                 !.pc = IF decide.i < Len(decide.uris) THEN "copy"
                                        ELSE IF decide.op = "approve" THEN "log"
                                        ELSE "video" ]
           ELSE /\ decide' = [ decide EXCEPT !.pc = "error" ]
                /\ UNCHANGED objects
    /\ UNCHANGED <<convVars, ledgerVars, queueVars, pipeVars, events, job>>

\* reject_video: delete_blob(video_gcs_uri)
DeleteVideo ==
    /\ decide.pc = "video"
    /\ \E refused \in BOOLEAN :
          IF BlobFromUri(job.video_gcs_uri) \in objects /\ ~ refused
          THEN /\ objects' = objects \ { BlobFromUri(job.video_gcs_uri) }
               /\ decide' = [ decide EXCEPT !.pc = "log" ]
          ELSE /\ decide' = [ decide EXCEPT !.pc = "error" ]
               /\ UNCHANGED objects
    /\ UNCHANGED <<convVars, ledgerVars, queueVars, pipeVars, events, job>>

\* the row approve_video logs: the approved-bucket names of the fixed URIs
ApprovedEvent ==
    [ gtin |-> job.gtin,
      status |-> "VIDEO_APPROVED",
      reference_image_gcs_uris |->
          [ k \in 1..(Len(decide.uris) - 1) |->
              Uri(APPROVED_ASSETS_BUCKET_NAME, job.gtin, LastPart(decide.uris[k])) ],
      video_gcs_uri |-> Uri(APPROVED_ASSETS_BUCKET_NAME, job.gtin,
                            LastPart(job.video_gcs_uri)),
      category |-> job.category ]

\* the row reject_video logs: the fixed URIs as they were, no video
RejectedEvent ==
    [ gtin |-> job.gtin,
      status |-> "VIDEO_REJECTED",
      reference_image_gcs_uris |-> decide.uris,
      video_gcs_uri |-> <<>>,
      category |-> job.category ]

\* log(): insert_rows into the event table; an exception is shown with
\* st.error and swallowed
LogEvent ==
    /\ decide.pc = "log"
    /\ \E inserted \in BOOLEAN :
          /\ events' = IF inserted
                       THEN Append(events, IF decide.op = "approve"
                                           THEN ApprovedEvent ELSE RejectedEvent)
                       ELSE events
          /\ decide' = [ decide EXCEPT !.pc = IF inserted THEN "done" ELSE "unlogged" ]
    /\ UNCHANGED <<convVars, ledgerVars, queueVars, pipeVars, objects, job>>

Decide ==
    \/ ApproveVideo \/ RejectVideo \/ RegenerateVideo
    \/ CopyBlob \/ DeleteSource \/ DeleteVideo \/ LogEvent

\* the exception of a failed decision leaves the job at the head of the
\* moderator's queue, and the moderator presses the same button again: the
\* same call, on the same job, starts from its first line
RetryDecision ==
    /\ decide.pc = "error"
    /\ ~ decide.retried
    /\ decide' = [ decide EXCEPT
                     !.pc = "copy",
                     !.uris = IF decide.op = "approve"
                              THEN FixReferenceImageUris(job.gtin,
                                                         job.reference_image_gcs_uris)
                                      \o << job.video_gcs_uri >>
                              ELSE FixReferenceImageUris(job.gtin,
                                                         job.reference_image_gcs_uris),
                     !.i = 1,
                     !.retried = TRUE ]
    /\ UNCHANGED <<convVars, ledgerVars, queueVars, pipeVars, objects, events, job>>


\* ============================================== Part III: the asset grouper
\* the keys a listing of the input bucket is drawn from, in name order
KeyOrder ==
    << [ dir |-> "clothes", parts |-> <<>>,            ext |-> "" ],      \* clothes/
       [ dir |-> "clothes", parts |-> <<"100", "01">>, ext |-> "jpg" ],
       [ dir |-> "clothes", parts |-> <<"100", "02">>, ext |-> "jpg" ],
       [ dir |-> "clothes", parts |-> <<"200", "01">>, ext |-> "png" ],
       [ dir |-> "clothes", parts |-> <<"abc", "01">>, ext |-> "jpg" ],
       [ dir |-> "clothes", parts |-> <<"logo">>,      ext |-> "png" ],
       [ dir |-> "clothes", parts |-> <<"notes">>,     ext |-> "txt" ],
       [ dir |-> "shoes",   parts |-> <<"100", "03">>, ext |-> "webp" ] >>

\* bucket.list_blobs(): the keys present, in name order
Listings ==
    { SelectSeq(KeyOrder, LAMBDA key : key \in present) :
        present \in SUBSET { KeyOrder[k] : k \in DOMAIN KeyOrder } }

IsDirectory(blob) == blob.parts = <<>>                    \* name.endswith('/')
IsImage(blob) == blob.ext \in {"webp", "png", "jpg", "jpeg"}

\* filename.split('_')[0]: the first part, with the extension when the
\* filename has no underscore
ParsedGtin(blob) ==
    IF Len(blob.parts) > 1 THEN << blob.parts[1] >> ELSE << blob.parts[1], blob.ext >>

\* f"gs://{bucket.name}/{blob.name}"
BlobUri(blob) ==
    << "gs:", "", INPUT_ASSETS_BUCKET_NAME, blob.dir, blob.parts, blob.ext >>

NoGtin == <<>>                                            \* current_gtin = None
NoGroup == [ gtin |-> NoGtin, category |-> "", assets |-> <<>> ]

IdleScan ==
    [ pc |-> "idle", listing |-> <<>>, pos |-> 1, current_gtin |-> NoGtin,
      current_group |-> NoGroup, yielded |-> <<>> ]

\* current_group["assets"].append(uri), with the first asset dropped
GroupWithAssetLost(group, uri) == [ group EXCEPT !.assets = << uri >> ]

\* current_group["assets"].append(uri)
GroupWithAsset(group, uri) == [ group EXCEPT !.assets = Append(@, uri) ]

\* one iteration of `for blob in bucket.list_blobs()`
GrouperStep ==
    /\ scan.pc = "scan"
    /\ scan.pos <= Len(scan.listing)
    /\ LET blob == scan.listing[scan.pos]
           gtin == ParsedGtin(blob)
           opened == gtin # scan.current_gtin
           group == IF opened
                    THEN [ gtin |-> gtin, category |-> blob.dir, assets |-> <<>> ]
                    ELSE scan.current_group
       IN  IF IsDirectory(blob) \/ ~ IsImage(blob)
           THEN scan' = [ scan EXCEPT !.pos = @ + 1 ]
           ELSE scan' = [ scan EXCEPT
                            !.pos = @ + 1,
                            !.yielded = IF opened /\ scan.current_gtin # NoGtin
                                        THEN Append(@, scan.current_group) ELSE @,
                            !.current_gtin = gtin,
                            !.current_group = GroupWithAsset(group, BlobUri(blob)) ]
    /\ UNCHANGED <<convVars, ledgerVars, assetVars, pipeVars>>

\* after the loop: the last group is yielded
GrouperEnd ==
    /\ scan.pc = "scan"
    /\ scan.pos > Len(scan.listing)
    /\ scan' = [ scan EXCEPT
                   !.pc = "done",
                   !.yielded = IF scan.current_gtin # NoGtin
                               THEN Append(@, scan.current_group) ELSE @ ]
    /\ UNCHANGED <<convVars, ledgerVars, assetVars, pipeVars>>

Grouper == GrouperStep \/ GrouperEnd


\* ============================================ Part IV: the upload pipeline
\* a third image of the product, an image of the product whose GTIN is the
\* GTIN of this model with one more digit, and a file that is uploaded to
\* the root of the bucket
ThirdFile == "4062742342943_03.jpg"
NeighbourGtin == "40627423429431"
NeighbourFile == "40627423429431_01.jpg"
RootFile == "4062742342943_04.jpg"
OtherFiles == << NeighbourFile, ThirdFile >>

\* the image files of a category folder in name order: '1' sorts before '_'
ListingOrder == << NeighbourFile, ImageFiles[1], ImageFiles[2], ThirdFile >>

\* filename.split('_'), for the file names of this model
SplitUnderscore(file) ==
    CASE file = ImageFiles[1] -> << Gtin, "01.jpg" >>
      [] file = ImageFiles[2] -> << Gtin, "02.jpg" >>
      [] file = ThirdFile -> << Gtin, "03.jpg" >>
      [] file = RootFile -> << Gtin, "04.jpg" >>
      [] file = NeighbourFile -> << NeighbourGtin, "01.jpg" >>
      [] OTHER -> << file >>

\* file.startswith(gtin), for the file names and GTINs of this model: every
\* file name begins with the digits of Gtin, one with those of NeighbourGtin
StartsWith(file, gtin) ==
    CASE gtin = Gtin -> TRUE
      [] gtin = NeighbourGtin -> file = NeighbourFile
      [] OTHER -> FALSE

NoReply == [ name |-> <<>>, status |-> "none" ]

\* the n-th generated video: <front stem>_<datetime.now().isoformat()>.mp4
GeneratedVideoFiles == << "4062742342943_01_t1.mp4", "4062742342943_01_t2.mp4",
                          "4062742342943_01_t3.mp4" >>

\* the notification of an upload: the object's name and bucket
UploadEvent(category, file) ==
    [ kind |-> "upload", name |-> << category, file >>,
      bucket |-> INPUT_ASSETS_BUCKET_NAME ]

\* list_blobs(bucket_name, prefix=f"{category}/{gtin}"), image files only,
\* sorted by name
ImageBlobs(bucket_name, category, gtin) ==
    SelectSeq(ListingOrder,
              LAMBDA file : /\ << bucket_name, category, file >> \in objects
                            /\ StartsWith(file, gtin))

\* a further image is uploaded to <category>/ of the input bucket, or a file
\* to the root of the bucket
UploadOther ==
    /\ \/ \E k \in DOMAIN OtherFiles :
             /\ << INPUT_ASSETS_BUCKET_NAME, Category, OtherFiles[k] >> \notin objects
             /\ objects' = objects \cup
                              { << INPUT_ASSETS_BUCKET_NAME, Category, OtherFiles[k] >> }
             /\ notices' = notices \cup { UploadEvent(Category, OtherFiles[k]) }
       \/ /\ << INPUT_ASSETS_BUCKET_NAME, RootFile >> \notin objects
          /\ objects' = objects \cup { << INPUT_ASSETS_BUCKET_NAME, RootFile >> }
          /\ notices' = notices \cup
                 { [ kind |-> "upload", name |-> << RootFile >>,
                     bucket |-> INPUT_ASSETS_BUCKET_NAME ] }
    /\ UNCHANGED <<convVars, ledgerVars, queueVars, events, job, decide, tasks, videoLogs, generated, reply>>

\* an image is uploaded to <category>/ of the input bucket and the bucket
\* publishes the notification of it
UploadImage ==
    /\ \E k \in DOMAIN ImageFiles :
          /\ << INPUT_ASSETS_BUCKET_NAME, Category, ImageFiles[k] >> \notin objects
          /\ objects' = objects \cup { << INPUT_ASSETS_BUCKET_NAME, Category, ImageFiles[k] >> }
          /\ notices' = notices \cup { UploadEvent(Category, ImageFiles[k]) }
    /\ UNCHANGED <<convVars, ledgerVars, queueVars, events, job, decide, tasks, videoLogs, generated, reply>>

\* publish_task: one message per group of get_new_input_assets; the bucket of
\* this model holds the images of one product
PublishTask ==
    /\ ImageBlobs(INPUT_ASSETS_BUCKET_NAME, Category, Gtin) # <<>>
    /\ notices' = notices \cup
          { [ kind |-> "group", gtin |-> Gtin, category |-> Category,
              assets |-> [ k \in DOMAIN ImageBlobs(INPUT_ASSETS_BUCKET_NAME, Category, Gtin) |->
                             Uri(INPUT_ASSETS_BUCKET_NAME, Category,
                                 ImageBlobs(INPUT_ASSETS_BUCKET_NAME, Category, Gtin)[k]) ] ] }
    /\ UNCHANGED <<convVars, ledgerVars, queueVars, assetVars, tasks, videoLogs, generated, reply>>

\* the body of the task enqueue_task creates
NewTask(gtin, category, front_gcs_uri, back_gcs_uri) ==
    [ gtin |-> gtin, category |-> category,
      front_image_gcs_uri |-> front_gcs_uri, back_image_gcs_uri |-> back_gcs_uri ]

\* main of the task generator, run for one delivery of a notification; the
\* notification is acknowledged or delivered again
TaskGeneratorMain ==
    /\ \E event \in notices, acked \in BOOLEAN, inserted \in BOOLEAN :
          /\ notices' = IF acked THEN notices \ { event } ELSE notices
          /\ IF event.kind # "upload"
             THEN /\ reply' = [ name |-> <<>>, status |-> "AssertionError" ]
                  /\ UNCHANGED <<tasks, videoLogs>>    \* assert file_name is not None
             ELSE IF Len(event.name) < 2
             THEN /\ reply' = [ name |-> event.name, status |-> "SKIPPED_NO_FOLDER" ]
                  /\ UNCHANGED <<tasks, videoLogs>>
             ELSE LET category == event.name[1]
                      gtin == SplitUnderscore(event.name[2])[1]
                      image_blobs == ImageBlobs(event.bucket, category, gtin)
                  IN  IF Len(image_blobs) < 2
                      THEN /\ reply' = [ name |-> event.name,
                                         status |-> "WAITING_FOR_PAIR" ]
                           /\ UNCHANGED <<tasks, videoLogs>>
                      ELSE LET front_gcs_uri == Uri(event.bucket, category, image_blobs[1])
                               back_gcs_uri == Uri(event.bucket, category, image_blobs[2])
                           IN  /\ Len(tasks) < MaxTasks
                               /\ Len(videoLogs) < MaxLogs
                               /\ tasks' = Append(tasks, NewTask(gtin, category,
                                                                 front_gcs_uri, back_gcs_uri))
                               /\ videoLogs' =
                                    IF inserted
                                    THEN Append(videoLogs,
                                           [ gtin |-> gtin,
                                             status |-> "QUEUED_FOR_VIDEO_GENERATION",
                                             image_gcs_uri |-> front_gcs_uri ])
                                    ELSE videoLogs
                               /\ reply' = [ name |-> event.name, status |-> "OK" ]
    /\ UNCHANGED <<convVars, ledgerVars, queueVars, assetVars, generated>>

\* main of the video generator, run for one delivery of a task; the queue
\* drops the task or delivers it again.  generate_video is called whatever
\* rows the log holds; the operation fails when a reference image is missing
\* and may fail otherwise.
VideoGeneratorMain ==
    /\ generated < MaxGenerations
    /\ Len(videoLogs) < MaxLogs
    /\ \E t \in DOMAIN tasks, removed \in BOOLEAN, failed \in BOOLEAN, inserted \in BOOLEAN :
          LET data == tasks[t]
              front == BlobFromUri(data.front_image_gcs_uri)
              back == BlobFromUri(data.back_image_gcs_uri)
              error == failed \/ front \notin objects \/ back \notin objects
              video == << PROCESSED_ASSETS_BUCKET_NAME, data.gtin,
                          GeneratedVideoFiles[generated + 1] >>
              row == IF error
                     THEN [ gtin |-> data.gtin, status |-> "VIDEO_GENERATION_FAILED",
                            image_gcs_uri |-> data.front_image_gcs_uri ]
                     ELSE [ gtin |-> data.gtin, status |-> "VIDEO_GENERATION_COMPLETED",
                            image_gcs_uri |-> Uri(PROCESSED_ASSETS_BUCKET_NAME, data.gtin,
                                                  LastPart(data.front_image_gcs_uri)),
                            video_gcs_uri |-> Uri(video[1], video[2], video[3]) ]
          IN  /\ generated' = generated + 1
              /\ tasks' = IF removed
                          THEN SubSeq(tasks, 1, t - 1) \o SubSeq(tasks, t + 1, Len(tasks))
                          ELSE tasks
              /\ objects' =
                   IF error THEN objects
                   ELSE ((objects \ { front, back })
                           \cup { << PROCESSED_ASSETS_BUCKET_NAME, data.gtin, front[3] >>,
                                  << PROCESSED_ASSETS_BUCKET_NAME, data.gtin, back[3] >>,
                                  video })
              /\ videoLogs' = IF inserted THEN Append(videoLogs, row) ELSE videoLogs
    /\ UNCHANGED <<convVars, ledgerVars, queueVars, events, job, decide, notices, reply>>

Pipeline == UploadImage \/ PublishTask \/ TaskGeneratorMain \/ VideoGeneratorMain

\* ============================================ Part V: the video converter
\* the videos that are uploaded to the approved bucket: <gtin>/<file>.mp4,
\* and a file that is put into !production/ by hand
SourceNames ==
    { << Gtin, "sample_0", "mp4" >>, << NeighbourGtin, "sample_0", "mp4" >>,
      << "!production", "manual", "mp4" >> }

\* source_blob_name.startswith('!production/')
IsProduction(blob_name) == blob_name[1] = "!production"

\* f"!production/{gtin}.webp", gtin being source_blob_name.split('/')[0]
TargetBlobName(source_blob_name) == << "!production", source_blob_name[1], "", "webp" >>

\* target_blob_name.replace('.webp', f'_{TARGET_FPS}fps_w{new_w}.webp'), for
\* the width the videos of this model are scaled to
Downscaled(target_blob_name) ==
    << target_blob_name[1], target_blob_name[2], "_24fps_w680", target_blob_name[4] >>

IdleConv ==
    [ pc |-> "idle", source |-> <<>>, target |-> <<>>, exceeds |-> FALSE,
      temp_output |-> "empty", from |-> "none", result |-> "none" ]

\* the notification the bucket publishes for an object that is written
ConvEvent(blob_name) == [ name |-> blob_name ]

\* a video is uploaded to the approved bucket; its size is over the
\* total-pixel limit or not
UploadVideo ==
    /\ \E name \in SourceNames, exceeds \in BOOLEAN :
          /\ \A o \in approvedBucket : o.name # name
          /\ approvedBucket' = approvedBucket \cup
                { [ name |-> name, content |-> "mp4", exceeds |-> exceeds,
                    by |-> "upload", from |-> "none" ] }
          /\ convEvents' = convEvents \cup { ConvEvent(name) }
    /\ UNCHANGED <<ledgerVars, assetVars, queueVars, pipeVars, conv>>

\* a main that converts whatever object the event names
ConverterMainNoSkip ==
    /\ conv.pc = "idle"
    /\ \E event \in convEvents, acked \in BOOLEAN :
          /\ convEvents' = IF acked THEN convEvents \ { event } ELSE convEvents
          /\ conv' = [ IdleConv EXCEPT !.pc = "download",
                                       !.source = event.name,
                                       !.target = TargetBlobName(event.name) ]
    /\ UNCHANGED <<ledgerVars, assetVars, queueVars, pipeVars, approvedBucket>>

\* main, run for one delivery of a notification, up to the call of
\* convert_mp4_to_webp_gcs; the notification is acknowledged or delivered
\* again
ConverterMain ==
    /\ conv.pc = "idle"
    /\ \E event \in convEvents, acked \in BOOLEAN :
          /\ convEvents' = IF acked THEN convEvents \ { event } ELSE convEvents
          /\ conv' = IF IsProduction(event.name)
                     THEN [ IdleConv EXCEPT !.source = event.name, !.result = "skipped" ]
                     ELSE [ IdleConv EXCEPT !.pc = "download",
                                            !.source = event.name,
                                            !.target = TargetBlobName(event.name) ]
    /\ UNCHANGED <<ledgerVars, assetVars, queueVars, pipeVars, approvedBucket>>

\* source_blob.download_to_filename(temp_input.name); temp_output is a new,
\* empty temporary file
ConvDownload ==
    /\ conv.pc = "download"
    /\ \E failed \in BOOLEAN :
          IF failed \/ \A o \in approvedBucket : o.name # conv.source
          THEN conv' = [ IdleConv EXCEPT !.source = conv.source, !.result = "error" ]
          ELSE \E o \in approvedBucket :
                 /\ o.name = conv.source
                 /\ conv' = [ conv EXCEPT !.pc = "convert", !.exceeds = o.exceeds,
                                          !.from = o.by ]
    /\ UNCHANGED <<ledgerVars, assetVars, queueVars, pipeVars, approvedBucket, convEvents>>

\* the body of `with VideoFileClip(...)`: over the limit the target is
\* renamed, the clip resized and write_videofile called, all inside the `if`;
\* within the limit the body does nothing
ConvConvert ==
    /\ conv.pc = "convert"
    /\ \E failed \in BOOLEAN :
          IF conv.exceeds
          THEN IF failed
               THEN conv' = [ IdleConv EXCEPT !.source = conv.source, !.result = "error" ]
               ELSE conv' = [ conv EXCEPT !.pc = "upload",
                                          !.target = Downscaled(conv.target),
                                          !.temp_output = "webp" ]
          ELSE conv' = [ conv EXCEPT !.pc = "upload" ]
    /\ UNCHANGED <<ledgerVars, assetVars, queueVars, pipeVars, approvedBucket, convEvents>>

\* target_blob.upload_from_filename(temp_output.name): the object is
\* written, or replaced, and the bucket publishes the notification of it
ConvUpload ==
    /\ conv.pc = "upload"
    /\ \E failed \in BOOLEAN :
          IF failed
          THEN /\ conv' = [ IdleConv EXCEPT !.source = conv.source, !.result = "error" ]
               /\ UNCHANGED <<approvedBucket, convEvents>>
          ELSE /\ approvedBucket' =
                    { o \in approvedBucket : o.name # conv.target }
                    \cup { [ name |-> conv.target, content |-> conv.temp_output,
                             exceeds |-> FALSE, by |-> "converter",
                             from |-> conv.from ] }
               /\ convEvents' = convEvents \cup { ConvEvent(conv.target) }
               /\ conv' = [ IdleConv EXCEPT !.source = conv.source, !.result = "OK" ]
    /\ UNCHANGED <<ledgerVars, assetVars, queueVars, pipeVars>>

Converter == UploadVideo \/ ConverterMain \/ ConvDownload \/ ConvConvert \/ ConvUpload


\* ------------------------------------------------------ specifications
Init ==
    /\ inputImages \in SUBSET Ids
    /\ blobs \in SUBSET { PendingVideo(Stem(i)) : i \in inputImages }
    /\ table = <<>>
    /\ sync = [ r \in Reconcilers |-> IdleSync ]
    /\ worker = [ w \in Workers |-> IdleWorker ]
    /\ mods = [ m \in Moderators |-> IdleMod ]
    /\ streak = [ runs |-> 0, last |-> 0 ]
    /\ objects = {} /\ events = <<>> /\ job = NoJob /\ decide = IdleDecide
    /\ scan = IdleScan
    /\ notices = {} /\ tasks = <<>> /\ videoLogs = <<>> /\ generated = 0 /\ reply = NoReply
    /\ approvedBucket = {} /\ convEvents = {} /\ conv = IdleConv

\* one product: reconcile, the worker and a moderator side by side
InitOne == Init /\ inputImages \subseteq { IdOrder[1] }

Next ==
    \/ Reconcile(1)
    \/ BufferFlush
    \/ VideoArrives
    \/ Worker(1)
    \/ Moderator(1)

Spec == InitOne /\ [][Next]_vars

\* reconcile runs alone, two of them possibly overlapping
NextSync ==
    \/ \E r \in Reconcilers : Reconcile(r)
    \/ BufferFlush
    \/ VideoArrives

SpecSync == Init /\ [][NextSync]_vars

\* one product: two worker instances beside reconcile
NextWorkers ==
    \/ Reconcile(1)
    \/ BufferFlush
    \/ VideoArrives
    \/ \E w \in Workers : Worker(w)

SpecWorkers == InitOne /\ [][NextWorkers]_vars

\* one reconcile run at a time, beside the worker
NextSolo ==
    \/ Reconcile(1)
    \/ BufferFlush
    \/ VideoArrives
    \/ Worker(1)

SpecSolo == Init /\ [][NextSolo]_vars

\* a single worker whose ledger updates succeed: the worker issues an UPDATE
\* once the row has left the streaming buffer. The loop of main never ends
\* and every call in it returns, so the worker is weakly fair; the streaming
\* buffer is flushed by the service in the end.
WorkerUpdatesSucceed(w) ==
    /\ ~ ( /\ worker[w].pc \in {"claim", "upload", "mark"}
           /\ UpdateRejected(table, worker[w].image_id) )
    /\ Worker(w)

NextLive ==
    \/ Reconcile(1)
    \/ BufferFlush
    \/ WorkerUpdatesSucceed(1)
    \/ Moderator(1)

\* both images are in the input folder, and a video of the first one has
\* been delivered to the pending folder
InitLive == Init /\ inputImages = Ids /\ blobs = { PendingVideo(Stem(IdOrder[1])) }

SpecLive ==
    /\ InitLive
    /\ [][NextLive]_vars
    /\ WF_vars(WorkerUpdatesSucceed(1))
    /\ WF_vars(BufferFlush)

\* two moderators, each with a queue of their own, over the videos that
\* are in the bucket; reconcile fills the ledger
NextReview ==
    \/ Reconcile(1)
    \/ BufferFlush
    \/ \E m \in Moderators : Moderator(m)

SpecReview == Init /\ [][NextReview]_vars

\* one job of the review queue is decided: its reference URIs name the
\* input or the processed bucket, and any of its objects may be present
JobUris ==
    { refs \in [ DOMAIN ImageFiles ->
                   { Uri(INPUT_ASSETS_BUCKET_NAME, Category, ImageFiles[k]) :
                        k \in DOMAIN ImageFiles }
                   \cup { Uri(PROCESSED_ASSETS_BUCKET_NAME, Gtin, ImageFiles[k]) :
                        k \in DOMAIN ImageFiles } ] :
        \A k \in DOMAIN ImageFiles : LastPart(refs[k]) = ImageFiles[k] }

JobObjects ==
    { << INPUT_ASSETS_BUCKET_NAME, Category, ImageFiles[k] >> : k \in DOMAIN ImageFiles }
    \cup { << PROCESSED_ASSETS_BUCKET_NAME, Gtin, ImageFiles[k] >> : k \in DOMAIN ImageFiles }
    \cup { << PROCESSED_ASSETS_BUCKET_NAME, Gtin, VideoFile >> }

InitMove ==
    /\ inputImages = {} /\ blobs = {} /\ table = <<>>
    /\ sync = [ r \in Reconcilers |-> IdleSync ]
    /\ worker = [ w \in Workers |-> IdleWorker ]
    /\ mods = [ m \in Moderators |-> IdleMod ]
    /\ streak = [ runs |-> 0, last |-> 0 ]
    /\ objects \in SUBSET JobObjects
    /\ events = <<>>
    /\ \E refs \in JobUris :
          job = [ gtin |-> Gtin, category |-> Category,
                  video_gcs_uri |-> Uri(PROCESSED_ASSETS_BUCKET_NAME, Gtin, VideoFile),
                  reference_image_gcs_uris |-> refs ]
    /\ decide = IdleDecide
    /\ scan = IdleScan
    /\ notices = {} /\ tasks = <<>> /\ videoLogs = <<>> /\ generated = 0 /\ reply = NoReply
    /\ approvedBucket = {} /\ convEvents = {} /\ conv = IdleConv

NextMove == Decide

SpecMove == InitMove /\ [][NextMove]_vars

\* the same decision, with one retry after a failure
NextRetry == Decide \/ RetryDecision

SpecRetry == InitMove /\ [][NextRetry]_vars

\* one pass of the grouper over a sorted listing of the input bucket
InitScan ==
    /\ inputImages = {} /\ blobs = {} /\ table = <<>>
    /\ sync = [ r \in Reconcilers |-> IdleSync ]
    /\ worker = [ w \in Workers |-> IdleWorker ]
    /\ mods = [ m \in Moderators |-> IdleMod ]
    /\ streak = [ runs |-> 0, last |-> 0 ]
    /\ objects = {} /\ events = <<>> /\ job = NoJob /\ decide = IdleDecide
    /\ \E listing \in Listings :
          scan = [ IdleScan EXCEPT !.pc = "scan", !.listing = listing ]
    /\ notices = {} /\ tasks = <<>> /\ videoLogs = <<>> /\ generated = 0 /\ reply = NoReply
    /\ approvedBucket = {} /\ convEvents = {} /\ conv = IdleConv

NextScan == Grouper

SpecScan == InitScan /\ [][NextScan]_vars

\* the pipeline from empty buckets, an empty queue and an empty log
InitPipe ==
    /\ inputImages = {} /\ blobs = {} /\ table = <<>>
    /\ sync = [ r \in Reconcilers |-> IdleSync ]
    /\ worker = [ w \in Workers |-> IdleWorker ]
    /\ mods = [ m \in Moderators |-> IdleMod ]
    /\ streak = [ runs |-> 0, last |-> 0 ]
    /\ objects = {} /\ events = <<>> /\ job = NoJob /\ decide = IdleDecide
    /\ scan = IdleScan
    /\ notices = {} /\ tasks = <<>> /\ videoLogs = <<>> /\ generated = 0 /\ reply = NoReply
    /\ approvedBucket = {} /\ convEvents = {} /\ conv = IdleConv

NextPipe == Pipeline

SpecPipe == InitPipe /\ [][NextPipe]_vars

\* the converter on an empty approved bucket
NextConv == Converter

SpecConv == InitPipe /\ [][NextConv]_vars

\* the task generator alone, over every upload of this model
NextGen == UploadImage \/ UploadOther \/ TaskGeneratorMain

SpecGen == InitPipe /\ [][NextGen]_vars

\* =================================================================== claims
StatusOf(t, i) == IF i \in 1..Len(t) THEN t[i].generation_status ELSE "(none)"

\* the transition table of the job lifecycle, with the two transitions the
\* reconcile pass is specified to make besides it: the insert of a row whose
\* video already exists, and the back-fill of a PENDING row
TransitionTable ==
    { <<"(none)", "PENDING">>, <<"PENDING", "GENERATING">>,
      <<"GENERATING", "APPROVAL_PENDING">>, <<"GENERATING", "FAILED">>,
      <<"APPROVAL_PENDING", "MODERATED">>, <<"APPROVAL_PENDING", "PENDING">> }

ReconcileTransitions ==
    { <<"(none)", "APPROVAL_PENDING">>, <<"PENDING", "APPROVAL_PENDING">> }

\* C1: under any interleaving of reconcile, the worker loop and moderator
\* decisions, every change of a row's status is a row of the transition
\* table.  (Stated here with the reconcile transitions allowed as well, so
\* a violation is a violation of the claim whichever way the inserts and
\* back-fills are counted.)
C1_StatusWalk ==
    [][ \A i \in 1..Len(table') :
          StatusOf(table, i) # StatusOf(table', i)
            => <<StatusOf(table, i), StatusOf(table', i)>>
                 \in TransitionTable \cup ReconcileTransitions ]_vars

\* C2: a back-fill write of reconcile changes only rows that are PENDING
\* with no video_id at the moment of the write; never a row that is
\* GENERATING, APPROVAL_PENDING or MODERATED.
C2_BackfillOnlyPending ==
    [][ \A r \in Reconcilers :
          SyncBackfill(r)
            => \A i \in RowIdx :
                 table'[i] # table[i]
                   => /\ table[i].generation_status = "PENDING"
                      /\ table[i].video_id = NULL ]_vars

\* C3: in every reachable state the table holds at most one row per
\* image_id, also after overlapping and repeated reconcile runs.
C3_OneRowPerId ==
    \A image_id \in Ids : Cardinality(RowsOf(table, image_id)) <= 1

\* C4: the second of two reconcile runs made in a row, with no storage
\* change and no step of any other actor since the first began, returns
\* (0, 0).
C4_SecondRunReturnsZero ==
    streak.runs = 2 => sync[streak.last].ret = <<0, 0>>

C6_DecisionNeedsCompleted ==
    [][ \A m \in Moderators :
          ( /\ ModUpdate(m)
            /\ \E i \in RowsOf(table, mods[m].entry.image_id) :
                  table[i].generation_status # "APPROVAL_PENDING" )
            => /\ table' = table
               /\ mods'[m].result # "logged" ]_vars

\* C10: when the upload of the generated video fails after the worker has
\* made its claim, the job is left FAILED with no video_id (and so is not
\* picked again by get_next_pending_job).
C10_FailureIsFinal ==
    [][ \A w \in Workers :
          WorkerUploadFails(w) =>
             \A i \in RowsOf(table', worker[w].image_id) :
                /\ table'[i].generation_status = "FAILED"
                /\ table'[i].video_id = NULL ]_vars

InBucket(bucket, folder, file) == << bucket, folder, file >> \in objects
LastEvent == events[Len(events)]

\* C7: once an approve decision on a job whose images and video lay in the
\* processed bucket has completed, every reference image and the video are
\* in the approved bucket under <gtin>/, none of them is left in the
\* processed bucket, and the last event is VIDEO_APPROVED with the
\* approved-bucket URIs of the images and of the video.
C7_ApproveMovesAll ==
    (decide.pc = "done" /\ decide.op = "approve" /\ decide.ready)
      => /\ \A k \in DOMAIN ImageFiles :
               /\ InBucket(APPROVED_ASSETS_BUCKET_NAME, job.gtin, ImageFiles[k])
               /\ ~ InBucket(PROCESSED_ASSETS_BUCKET_NAME, job.gtin, ImageFiles[k])
         /\ InBucket(APPROVED_ASSETS_BUCKET_NAME, job.gtin, VideoFile)
         /\ ~ InBucket(PROCESSED_ASSETS_BUCKET_NAME, job.gtin, VideoFile)
         /\ events # <<>>
         /\ LastEvent.status = "VIDEO_APPROVED"
         /\ LastEvent.reference_image_gcs_uris =
               [ k \in DOMAIN ImageFiles |->
                   Uri(APPROVED_ASSETS_BUCKET_NAME, job.gtin, ImageFiles[k]) ]
         /\ LastEvent.video_gcs_uri =
               Uri(APPROVED_ASSETS_BUCKET_NAME, job.gtin, VideoFile)

\* C8: once a regenerate decision on such a job has completed, the
\* reference images are in the input bucket, the video is gone, and the
\* request is on record for the next generation.
C8_RegenerateResets ==
    (decide.pc = "done" /\ decide.op = "regenerate" /\ decide.ready)
      => /\ \A k \in DOMAIN ImageFiles :
               InBucket(INPUT_ASSETS_BUCKET_NAME, job.category, ImageFiles[k])
         /\ ~ InBucket(PROCESSED_ASSETS_BUCKET_NAME, job.gtin, VideoFile)
         /\ events # <<>>

\* C9: once a reject decision on such a job has completed, every reference
\* image is in the input bucket and no longer in the processed bucket, the
\* video is gone, and the last event is VIDEO_REJECTED without a video URI.
C9_RejectReturnsAll ==
    (decide.pc = "done" /\ decide.op = "reject" /\ decide.ready)
      => /\ \A k \in DOMAIN ImageFiles :
               /\ InBucket(INPUT_ASSETS_BUCKET_NAME, job.category, ImageFiles[k])
               /\ ~ InBucket(PROCESSED_ASSETS_BUCKET_NAME, job.gtin, ImageFiles[k])
         /\ ~ InBucket(PROCESSED_ASSETS_BUCKET_NAME, job.gtin, VideoFile)
         /\ events # <<>>
         /\ LastEvent.status = "VIDEO_REJECTED"
         /\ LastEvent.video_gcs_uri = <<>>

\* C11: every claim of the worker that takes a row from PENDING to
\* GENERATING raises the row's generation_attempts by exactly 1.
C11_ClaimCountsAttempt ==
    [][ \A w \in Workers :
          WorkerClaim(w) =>
             \A i \in RowsOf(table, worker[w].image_id) :
                ( /\ table[i].generation_status = "PENDING"
                  /\ table'[i].generation_status = "GENERATING" )
                  => table'[i].generation_attempts = table[i].generation_attempts + 1 ]_vars

\* C12: a row whose status is MODERATED keeps that status in every later
\* step, whichever of the worker, reconcile or a moderator takes it.
C12_ModeratedIsTerminal ==
    [][ \A i \in RowIdx :
          table[i].generation_status = "MODERATED"
            => table'[i].generation_status = "MODERATED" ]_vars

\* C13: no step of the worker loop or of reconcile changes the status of a
\* row that is FAILED.
C13_FailedStaysFailed ==
    [][ \A i \in RowIdx :
          table[i].generation_status = "FAILED"
            => table'[i].generation_status = "FAILED" ]_vars

\* C14: no step takes a row from PENDING to MODERATED: a row becomes
\* MODERATED only from APPROVAL_PENDING.
C14_NoPendingToModerated ==
    [][ \A i \in RowIdx :
          ( /\ table[i].generation_status # "MODERATED"
            /\ table'[i].generation_status = "MODERATED" )
            => table[i].generation_status = "APPROVAL_PENDING" ]_vars

\* C15: in every reachable table a row that is APPROVAL_PENDING has a
\* video_id, and a row that is PENDING, GENERATING or FAILED has none.
C15_VideoMatchesStatus ==
    \A i \in RowIdx :
       /\ table[i].generation_status = "APPROVAL_PENDING" => table[i].video_id # NULL
       /\ table[i].generation_status \in {"PENDING", "GENERATING", "FAILED"}
            => table[i].video_id = NULL

\* a moderator sent a reviewed job back and the worker has claimed it again
C15_Witness ==
    \E i \in RowIdx :
       /\ table[i].decision = "regenerate"
       /\ table[i].generation_status = "GENERATING"
       /\ table[i].video_id = NULL

\* C16: after an approve or a reject that completed, every reference URI
\* of the event it recorded names an object that exists, in the approved
\* bucket after an approve and in the input bucket after a reject.
C16_RecordedUrisExist ==
    (decide.pc = "done" /\ decide.op \in {"approve", "reject"})
      => /\ events # <<>>
         /\ \A k \in DOMAIN LastEvent.reference_image_gcs_uris :
               LET gcs_uri == LastEvent.reference_image_gcs_uris[k]
               IN  /\ BlobFromUri(gcs_uri) \in objects
                   /\ gcs_uri[3] = IF decide.op = "approve"
                                   THEN APPROVED_ASSETS_BUCKET_NAME
                                   ELSE INPUT_ASSETS_BUCKET_NAME

\* C17: a step of a decision in which a storage call fails writes nothing
\* to the table or the event log and ends the decision: the session does not
\* go on to the UPDATE.
C17_StorageErrorStops ==
    [][ /\ \A m \in Moderators :
              ( /\ CanDecide(m) \/ mods[m].pc = "delete"
                /\ mods[m].entry.video_id \notin blobs
                /\ mods'[m] # mods[m] )
                => /\ table' = table
                   /\ mods'[m].pc = "idle"
        /\ (decide.pc # "error" /\ decide'.pc = "error") => events' = events ]_vars

\* a decision was stopped by a storage error and the row is as it was
C17_Witness ==
    \E m \in Moderators :
       /\ mods[m].result = "gcs_error"
       /\ \E i \in RowsOf(table, mods[m].entry.image_id) :
             table[i].generation_status = "APPROVAL_PENDING"

\* C18: a move never loses its object: after the copy step and after the
\* delete step, failed or not, an object that was at the source is at the
\* source or at the destination.
C18_MoveKeepsObject ==
    [][ (CopyBlob \/ DeleteSource) =>
          LET source_blob == BlobFromUri(decide.uris[decide.i])
          IN  source_blob \in objects
                => (source_blob \in objects' \/ Destination \in objects') ]_vars


\* the asset lists of a sequence of groups, one after the other
RECURSIVE AssetsInOrder(_)
AssetsInOrder(groups) ==
    IF groups = <<>> THEN <<>>
    ELSE groups[1].assets \o AssetsInOrder(Tail(groups))

\* the URIs of the listing's image keys, in listing order
RECURSIVE KeptUris(_)
KeptUris(listing) ==
    IF listing = <<>> THEN <<>>
    ELSE LET blob == listing[1]
         IN  (IF IsDirectory(blob) \/ ~ IsImage(blob) THEN <<>> ELSE << BlobUri(blob) >>)
               \o KeptUris(Tail(listing))

AssetSet(group) == { group.assets[a] : a \in DOMAIN group.assets }

\* C19: when the grouper has finished a sorted listing, every yielded group
\* is non-empty, no two yielded groups share an asset, and the asset lists
\* in emission order, put end to end, are the listing with the directory
\* markers and the non-image keys removed: nothing lost, doubled or moved.
C19_GroupsPartitionListing ==
    scan.pc = "done" =>
        /\ \A g \in DOMAIN scan.yielded : scan.yielded[g].assets # <<>>
        /\ \A g, h \in DOMAIN scan.yielded :
              g # h => AssetSet(scan.yielded[g]) \cap AssetSet(scan.yielded[h]) = {}
        /\ AssetsInOrder(scan.yielded) = KeptUris(scan.listing)

\* a finished pass that skipped a key, yielded three groups and put two
\* assets in one of them
C19_Witness ==
    /\ scan.pc = "done"
    /\ Len(scan.yielded) >= 3
    /\ \E g \in DOMAIN scan.yielded : Len(scan.yielded[g].assets) >= 2
    /\ Len(KeptUris(scan.listing)) < Len(scan.listing)

\* a product id is parseable when it is one all-digit string
DigitStrings == {"100", "200"}
IsDigit(gtin) == Len(gtin) = 1 /\ gtin[1] \in DigitStrings

\* the URIs of the image keys whose product id cannot be parsed
UnparsedUris(listing) ==
    { BlobUri(listing[k]) : k \in { j \in DOMAIN listing :
          /\ ~ IsDirectory(listing[j]) /\ IsImage(listing[j])
          /\ ~ IsDigit(ParsedGtin(listing[j])) } }

\* C20: an image key whose filename has no all-digit prefix before the first
\* underscore is dropped: once the pass has finished, no yielded group holds
\* such a key and no yielded group has its prefix as product id.
C20_UnparsedKeyDropped ==
    scan.pc = "done" =>
        \A g \in DOMAIN scan.yielded :
            /\ IsDigit(scan.yielded[g].gtin)
            /\ AssetSet(scan.yielded[g]) \cap UnparsedUris(scan.listing) = {}


\* C22: approve and reject keep the order of the reference URIs: in the
\* event a completed decision records, the i-th reference URI is the place
\* the i-th reference URI of the job was moved to (<gtin>/<file> of the
\* approved bucket, <category>/<file> of the input bucket), for every i, and
\* the list is as long as the job's.
C22_OrderPreserved ==
    (decide.pc = "done" /\ decide.op \in {"approve", "reject"})
      => /\ events # <<>>
         /\ DOMAIN LastEvent.reference_image_gcs_uris = DOMAIN job.reference_image_gcs_uris
         /\ \A k \in DOMAIN job.reference_image_gcs_uris :
               LastEvent.reference_image_gcs_uris[k] =
                  IF decide.op = "approve"
                  THEN Uri(APPROVED_ASSETS_BUCKET_NAME, job.gtin,
                           LastPart(job.reference_image_gcs_uris[k]))
                  ELSE Uri(INPUT_ASSETS_BUCKET_NAME, job.category,
                           LastPart(job.reference_image_gcs_uris[k]))


\* C24: a back-fill of reconcile and a claim of the worker on the same row
\* keep each other's fields, whichever lands first: the claim leaves a
\* video_id that is set as it is, and the back-fill leaves the status of a
\* row that is GENERATING as it is.
C24_NoClobber ==
    [][ /\ \A w \in Workers :
              WorkerClaim(w) =>
                 \A i \in RowsOf(table, worker[w].image_id) :
                    table[i].video_id # NULL => table'[i].video_id = table[i].video_id
        /\ \A r \in Reconcilers :
              SyncBackfill(r) =>
                 \A i \in RowIdx :
                    table[i].generation_status = "GENERATING"
                      => table'[i].generation_status = "GENERATING" ]_vars


\* C25: a poll of the worker selects a row that is PENDING and has the
\* smallest last_updated of the PENDING rows; when no row is PENDING the
\* worker selects nothing and stays at the poll; a poll changes no row.
C25_OldestPendingFirst ==
    [][ \A w \in Workers :
          WorkerPoll(w) =>
             /\ table' = table
             /\ IF \E i \in RowIdx : table[i].generation_status = "PENDING"
                THEN /\ worker'[w].pc = "claim"
                     /\ \E i \in RowsOf(table, worker'[w].image_id) :
                           /\ table[i].generation_status = "PENDING"
                           /\ \A j \in RowIdx :
                                 table[j].generation_status = "PENDING"
                                   => table[i].last_updated <= table[j].last_updated
                ELSE worker' = worker /\ worker'[w].pc = "poll" ]_vars

\* the worker has selected the older of two PENDING rows
C25_Witness ==
    /\ worker[1].pc = "claim"
    /\ \E i, j \in RowIdx :
          /\ table[i].image_id = worker[1].image_id
          /\ table[i].generation_status = "PENDING"
          /\ table[j].generation_status = "PENDING"
          /\ table[i].last_updated < table[j].last_updated


\* C26: the claim precedes the work: when the worker invokes generation for
\* a job, the row of that job has been set to GENERATING by the claim, so no
\* row of the job is still PENDING at that moment.
C26_ClaimBeforeWork ==
    [][ \A w \in Workers :
          WorkerGenerate(w) =>
             \A i \in RowsOf(table, worker[w].image_id) :
                table[i].generation_status # "PENDING" ]_vars


\* the order of the steps of one iteration of the worker loop
WorkerFlow ==
    { <<"poll", "claim">>, <<"claim", "generate">>, <<"generate", "upload">>,
      <<"upload", "mark">>, <<"upload", "cooldown">>, <<"mark", "cooldown">>,
      <<"cooldown", "poll">> }

\* C27: the worker sleeps the cooldown after every claim, whether the job
\* ended APPROVAL_PENDING or FAILED: once generation has been invoked the
\* worker comes back to the poll, and so to the next generation, only by
\* completing the cooldown step.
C27_CooldownAfterClaim ==
    [][ \A w \in Workers :
          worker'[w].pc # worker[w].pc
            => <<worker[w].pc, worker'[w].pc>> \in WorkerFlow ]_vars

\* generation has been invoked again after a job that ended FAILED
C27_Witness ==
    /\ worker[1].pc = "upload"
    /\ \E i \in RowIdx :
          /\ table[i].generation_status = "FAILED"
          /\ table[i].image_id # worker[1].image_id


\* no run is in progress and the last one ran undisturbed from its listing
\* to its end
SettledRun ==
    /\ streak.runs >= 1
    /\ \A r \in Reconcilers : sync[r].pc = "idle"

C29_FailureIsLocal ==
    /\ [][ \A w \in Workers :
             ( \/ WorkerUploadFails(w)
               \/ ( /\ WorkerClaim(w) \/ WorkerMark(w) \/ WorkerUploadFails(w)
                    /\ UpdateRejected(table, worker[w].image_id) ) )
               => <<worker[w].pc, worker'[w].pc>> \in WorkerFlow ]_vars
    /\ [] \A w \in Workers : ENABLED Worker(w)
    /\ [][ \A r \in Reconcilers :
             ( /\ SyncBackfill(r)
               /\ UpdateRejected(table, Head(sync[r].updates))
               /\ Len(sync[r].updates) > 1 )
               => /\ sync'[r].pc = "backfill"
                  /\ Head(sync'[r].updates) = sync[r].updates[2] ]_vars

\* a run planned two back-fills: the first was rejected and the second has
\* been written
C29_Witness ==
    /\ SettledRun
    /\ sync[streak.last].ret = <<0, 2>>
    /\ \E i, j \in RowIdx :
          /\ table[i].image_id = IdOrder[1]
          /\ table[i].buffered /\ table[i].generation_status = "PENDING"
          /\ table[j].image_id = IdOrder[2]
          /\ table[j].generation_status = "APPROVAL_PENDING"
          /\ table[j].video_id = PendingVideo(Stem(IdOrder[2]))


\* get_videos_to_review: all the rows the query returns
ReviewQueue(t) ==
    { i \in 1..Len(t) :
        t[i].generation_status = "APPROVAL_PENDING" /\ t[i].decision = NoText }

\* C30: every row that is APPROVAL_PENDING is in the review queue, also a
\* row that was sent back by a regenerate decision and has been completed
\* again by the worker.
C30_CompletedIsOffered ==
    \A i \in RowIdx :
       table[i].generation_status = "APPROVAL_PENDING" => i \in ReviewQueue(table)


\* C23: with two worker instances running, a row that a worker has taken to
\* APPROVAL_PENDING with the video it uploaded is not taken to GENERATING or
\* FAILED, and does not lose its video_id, by a step of a worker.
C23_WorkersDoNotCorrupt ==
    [][ \A w \in Workers :
          Worker(w) =>
             \A i \in RowIdx :
                ( /\ table[i].generation_status = "APPROVAL_PENDING"
                  /\ table[i].video_id = OutputVideo(Stem(table[i].image_id)) )
                  => /\ table'[i].generation_status \notin {"GENERATING", "FAILED"}
                     /\ table'[i].video_id # NULL ]_vars


JobExists(gtin) == \E k \in DOMAIN videoLogs : videoLogs[k].gtin = gtin
JobCompleted(gtin) ==
    \E k \in DOMAIN videoLogs :
       videoLogs[k].gtin = gtin /\ videoLogs[k].status = "VIDEO_GENERATION_COMPLETED"

\* C21: duplicate notifications are tolerated.  Once the log holds a row for
\* a product, a delivery of a notification to the task generator adds no
\* row and queues no task; and once the video of the product has been
\* generated, a delivery of a task to the video generator starts no
\* generation and adds no row.
C21_DuplicatesTolerated ==
    [][ /\ (TaskGeneratorMain /\ JobExists(Gtin))
              => (videoLogs' = videoLogs /\ tasks' = tasks)
        /\ (VideoGeneratorMain /\ JobCompleted(Gtin))
              => (videoLogs' = videoLogs /\ generated' = generated) ]_vars


\* C38: fix_reference_image_uris rewrites every reference URI that names
\* the input bucket to <gtin>/<file> of the processed bucket, leaves every
\* other URI as it is, and keeps the length and the order of the list: the
\* list a decision works on is that rewrite of the job's list (followed by
\* the video URI in an approve).
C38_FixRewritesInputUris ==
    decide.op \in {"approve", "reject"}
      => /\ Len(decide.uris) = Len(job.reference_image_gcs_uris)
                                 + (IF decide.op = "approve" THEN 1 ELSE 0)
         /\ \A k \in DOMAIN job.reference_image_gcs_uris :
               LET gcs_uri == job.reference_image_gcs_uris[k]
               IN  decide.uris[k] =
                      IF gcs_uri[3] = INPUT_ASSETS_BUCKET_NAME
                      THEN Uri(PROCESSED_ASSETS_BUCKET_NAME, job.gtin, LastPart(gcs_uri))
                      ELSE gcs_uri


\* C33: the pair a reconcile run returns counts the rows it inserted and
\* the rows it back-filled: a run in which a back-fill UPDATE is rejected
\* returns, as its second number, less than the number of back-fills it
\* planned.
C33_ReturnCountsWrites ==
    [][ \A r \in Reconcilers :
          ( /\ SyncBackfill(r)
            /\ UpdateRejected(table, Head(sync[r].updates)) )
            => sync'[r].ret[2] < Len(BackfillPlan(sync[r])) ]_vars


\* the object the current step of a decision reads
CurrentSource ==
    IF decide.pc = "video" THEN BlobFromUri(job.video_gcs_uri)
    ELSE BlobFromUri(decide.uris[decide.i])

\* C31: a decision that failed part-way can be retried. For a job whose
\* assets all lay in the processed bucket, where its URIs name them, when
\* the decision was first made (so that the first call can only have failed
\* on a request the storage service refused), the repeated call fails only
\* when the storage service refuses a request again, never because an asset
\* the first call has moved is missing at its source.
C31_RetryCompletes ==
    [][ ( /\ decide.retried
          /\ decide.ready
          /\ \A k \in DOMAIN decide.uris :
                decide.uris[k][3] = PROCESSED_ASSETS_BUCKET_NAME
          /\ decide.pc \in {"copy", "delete", "video"}
          /\ decide'.pc = "error" )
          => CurrentSource \in objects ]_vars


\* C32: two moderators deciding on the same job from their own copies of
\* the review queue: a decision is recorded only on a row that carries no
\* decision yet, and while one moderator's decision on the job is recorded
\* the other has neither recorded one nor an UPDATE on its way (the missing
\* video has stopped that moderator with a storage error).
C32_OneDecisionRecorded ==
    /\ [][ \A m \in Moderators :
             ( /\ ModUpdate(m)
               /\ ~ UpdateRejected(table, mods[m].entry.image_id) )
               => \A i \in RowsOf(table, mods[m].entry.image_id) :
                     table[i].decision = NoText ]_vars
    /\ [] \A m \in Moderators : \A o \in Moderators \ {m} :
             ( /\ mods[m].result = "logged"
               /\ mods[o].entry = mods[m].entry )
               => /\ mods[o].result # "logged"
                  /\ mods[o].pc # "update"

C32_Witness ==
    \E m \in Moderators : \E o \in Moderators \ {m} :
       /\ mods[m].result = "logged"
       /\ mods[o].entry = mods[m].entry
       /\ mods[o].result = "gcs_error"


\* a row of this image has the status
HasStatus(image_id, statuses) ==
    \E i \in RowsOf(table, image_id) : table[i].generation_status \in statuses

\* C34: with a single worker whose generation calls return and whose ledger
\* updates succeed, every job that is PENDING eventually reaches
\* APPROVAL_PENDING (the completed status) or FAILED, whatever jobs are
\* inserted or sent back for regeneration meanwhile.
C34_NoStarvation ==
    \A image_id \in Ids :
       HasStatus(image_id, {"PENDING"})
          ~> HasStatus(image_id, {"APPROVAL_PENDING", "FAILED"})

\* the worker has completed the older job while the job that a moderator
\* sent back for regeneration waits as PENDING
C34_Witness ==
    /\ worker[1].pc = "cooldown"
    /\ HasStatus(worker[1].image_id, {"APPROVAL_PENDING"})
    /\ \E i \in RowIdx :
          /\ table[i].image_id # worker[1].image_id
          /\ table[i].generation_status = "PENDING"
          /\ table[i].decision = "regenerate"


\* the images of the product in the category folder of the input bucket
ProductImages(category, gtin) ==
    { file \in { ListingOrder[k] : k \in DOMAIN ListingOrder } :
        /\ << INPUT_ASSETS_BUCKET_NAME, category, file >> \in objects
        /\ SplitUnderscore(file)[1] = gtin }

\* C35: the task generator enqueues a task only when the category folder
\* holds at least two images of the GTIN of the uploaded file; with fewer it
\* returns WAITING_FOR_PAIR and neither enqueues nor logs; for a file that
\* is not in a folder it returns SKIPPED_NO_FOLDER and does neither.
C35_EnqueueNeedsPair ==
    [][ TaskGeneratorMain =>
          /\ Len(reply'.name) = 1
                => /\ reply'.status = "SKIPPED_NO_FOLDER"
                   /\ UNCHANGED <<tasks, videoLogs>>
          /\ Len(reply'.name) = 2
                => LET category == reply'.name[1]
                       gtin == SplitUnderscore(reply'.name[2])[1]
                   IN  IF Cardinality(ProductImages(category, gtin)) < 2
                       THEN /\ reply'.status = "WAITING_FOR_PAIR"
                            /\ UNCHANGED <<tasks, videoLogs>>
                       ELSE /\ reply'.status = "OK"
                            /\ Len(tasks') = Len(tasks) + 1 ]_vars


\* C36: for a product whose images are uploaded as separate events, the
\* queue never holds more than one generation task of the product, however
\* the handlers interleave, also with a third image of the product and with
\* a notification delivered again (no image of another product is in the
\* folder).
C36_OneTaskPerProduct ==
    << INPUT_ASSETS_BUCKET_NAME, Category, NeighbourFile >> \notin objects
       => Cardinality({ k \in DOMAIN tasks : tasks[k].gtin = Gtin }) <= 1

\* C37: the front and the back image of every enqueued task are images of
\* the GTIN the task is for, also when the folder holds an image of a
\* product whose GTIN has that GTIN as a proper prefix.
C37_TaskImagesBelongToGtin ==
    \A k \in DOMAIN tasks :
       /\ SplitUnderscore(LastPart(tasks[k].front_image_gcs_uri))[1] = tasks[k].gtin
       /\ SplitUnderscore(LastPart(tasks[k].back_image_gcs_uri))[1] = tasks[k].gtin


\* C39: every object the converter uploads holds the WebP conversion of its
\* source: write_videofile has written the output file before the upload,
\* whether the video is over the total-pixel limit or not.
C39_ConvertedBeforeUpload ==
    /\ conv.pc = "upload" => conv.temp_output = "webp"
    /\ \A o \in approvedBucket : o.by = "converter" => o.content = "webp"


\* C40: the converter never processes its own output. Every object it
\* writes is named !production/..., also after the downscale rename; a run
\* for such a name is skipped and no conversion is started for it; so every
\* object the converter has written comes from an uploaded video, never from
\* an object the converter wrote.
C40_NoTriggerLoop ==
    /\ \A o \in approvedBucket :
          o.by = "converter" => IsProduction(o.name) /\ o.from = "upload"
    /\ conv.pc # "idle" => ~ IsProduction(conv.source) /\ IsProduction(conv.target)
    /\ (conv.source # <<>> /\ IsProduction(conv.source)) => conv.result = "skipped"

\* the notification of a downscaled output has been handled and skipped
C40_Witness ==
    /\ conv.result = "skipped"
    /\ conv.source = Downscaled(TargetBlobName(<< Gtin, "sample_0", "mp4" >>))
    /\ \E o \in approvedBucket : o.name = conv.source /\ o.by = "converter"

====
